---- MODULE Spec2Model ----
(***************************************************************************)
(* A model of src/analyzer.py: the script that loads a spaCy model, reads  *)
(* a CSV of historical events, enriches every row with the named entities  *)
(* of its description and then lays the events out on a timeline.          *)
(*                                                                         *)
(* Strings the code looks into (dates, titles) are sequences of one-       *)
(* character strings.  A description is either NaN (an empty CSV cell) or  *)
(* a text, which is represented by what the external classifier returns    *)
(* on it: a sequence of (span, label) pairs.                               *)
(*                                                                         *)
(* Library behaviour assumed (pandas 2.x): pd.to_datetime of a string      *)
(* raises when the string is no calendar date or lies outside the          *)
(* nanosecond range 1677-09-21 .. 2262-04-11; pd.Timestamp of an ISO       *)
(* string with a four-digit year is representable whatever the year;       *)
(* sort_values with its default kind="quicksort" orders equal keys in an   *)
(* unspecified way; nlp(x) raises for an x that is not a string.  The date *)
(* column is read as strings, with four-digit leading years.               *)
(***************************************************************************)
EXTENDS Integers, Sequences, FiniteSets, TLC

VARIABLES
    pc,         \* position of the script
    is_main,    \* __name__ == "__main__"
    model_ok,   \* the spaCy model en_core_web_sm is installed
    file_ok,    \* the CSV file exists
    csv,        \* the rows of the CSV file
    df,         \* the DataFrame
    df_defined, \* whether the name df is bound
    idx,        \* the enrichment loop's position in df (1-based)
    levels,     \* the list levels
    i,          \* the label loop's enumerate counter
    texts,      \* the ax.text calls made so far
    stdout,     \* the lines printed so far
    err         \* the uncaught exception that ended the run, if any

vars == <<pc, is_main, model_ok, file_ok, csv, df, df_defined, idx, levels, i,
          texts, stdout, err>>

-----------------------------------------------------------------------------
(* Bounds of the model. *)

MaxEnts == 2
MaxRows == 3
MaxEvents == 2
MaxTitleLen == 35
MaxLevelEvents == 8

-----------------------------------------------------------------------------
(* Values. *)

None == <<>>
Some(v) == <<v>>
NaN == <<>>
Text(ents) == <<ents>>

NoError == [type |-> "none", at |-> "none"]
Exception(t, a) == [type |-> t, at |-> a]

Range(s) == {s[k] : k \in 1..Len(s)}
NoDup(s) == \A a, b \in 1..Len(s) : s[a] = s[b] => a = b
SeqsUpTo(S, n) == UNION {[1..k -> S] : k \in 0..n}

-----------------------------------------------------------------------------
(* Characters, integers and calendar dates. *)

Digits == <<"0", "1", "2", "3", "4", "5", "6", "7", "8", "9">>
IsDigit(c) == \E d \in 1..10 : Digits[d] = c
DigitVal(c) == (CHOOSE d \in 1..10 : Digits[d] = c) - 1

\* date_str.split('-')
RECURSIVE Split(_)
Split(s) ==
    LET dashes == {k \in 1..Len(s) : s[k] = "-"}
    IN  IF dashes = {} THEN <<s>>
        ELSE LET k == CHOOSE d \in dashes : \A e \in dashes : d <= e
             IN  <<SubSeq(s, 1, k - 1)>> \o Split(SubSeq(s, k + 1, Len(s)))

\* int(token) succeeds
IsInt(tok) == Len(tok) > 0 /\ \A k \in 1..Len(tok) : IsDigit(tok[k])

\* int(token)
RECURSIVE IntValue(_)
IntValue(tok) ==
    IF Len(tok) = 0 THEN 0
    ELSE 10 * IntValue(SubSeq(tok, 1, Len(tok) - 1)) + DigitVal(tok[Len(tok)])

\* f'{n}'
RECURSIVE IntToStr(_)
IntToStr(n) ==
    IF n < 10 THEN <<Digits[n + 1]>>
    ELSE IntToStr(n \div 10) \o <<Digits[(n % 10) + 1]>>

IsLeap(y) == (y % 4 = 0 /\ y % 100 # 0) \/ y % 400 = 0
DaysInMonth(y, m) ==
    IF m = 2 THEN (IF IsLeap(y) THEN 29 ELSE 28)
    ELSE IF m \in {4, 6, 9, 11} THEN 30 ELSE 31

Date(y, m, d) == [y |-> y, m |-> m, d |-> d]
NoDate == Date(0, 0, 0)
Returned(ts) == [raised |-> "none", value |-> ts]
Raised(t) == [raised |-> t, value |-> NoDate]

\* The order of timestamps.
TsKey(ts) == (ts.y * 12 + (ts.m - 1)) * 31 + (ts.d - 1)

\* The parse of YYYY, YYYY-MM or YYYY-MM-DD as a calendar date.
ParseCalendar(s) ==
    LET toks == Split(s)
        n == Len(toks)
        wellFormed ==
            /\ n \in 1..3
            /\ \A k \in 1..n : IsInt(toks[k])
            /\ Len(toks[1]) = 4
            /\ \A k \in 2..n : Len(toks[k]) = 2
        y == IntValue(toks[1])
        m == IF n >= 2 THEN IntValue(toks[2]) ELSE 1
        d == IF n >= 3 THEN IntValue(toks[3]) ELSE 1
    IN  IF ~wellFormed THEN Raised("ValueError")
        ELSE IF y < 1 \/ m \notin 1..12 \/ d \notin 1..DaysInMonth(y, m)
             THEN Raised("ValueError")
        ELSE Returned(Date(y, m, d))

\* The first and the last day pd.to_datetime can represent at midnight
\* (pd.Timestamp.min is 1677-09-21 00:12:43, pd.Timestamp.max 2262-04-11 23:47:16).
NanoMin == Date(1677, 9, 22)
NanoMax == Date(2262, 4, 11)

\* pd.to_datetime(date_str)
to_datetime(date_str) ==
    LET r == ParseCalendar(date_str)
    IN  IF r.raised # "none" THEN r
        ELSE IF TsKey(r.value) < TsKey(NanoMin) \/ TsKey(r.value) > TsKey(NanoMax)
             THEN Raised("OutOfBoundsDatetime")
        ELSE r

\* pd.Timestamp(string)
Timestamp(s) == ParseCalendar(s)

\* safe_date_conversion without the clamp to 1677.
safe_date_conversion_noclamp(date_str) ==
    LET r == to_datetime(date_str)
    IN  IF r.raised = "none" THEN r
        ELSE LET tok == Split(date_str)[1]
             IN  IF ~IsInt(tok) THEN Raised("ValueError")
                 ELSE Timestamp(IntToStr(IntValue(tok))
                                \o <<"-", "0", "1", "-", "0", "1">>)

\* safe_date_conversion with the clamp's comparison turned round.
safe_date_conversion_flipped(date_str) ==
    LET r == to_datetime(date_str)
    IN  IF r.raised = "none" THEN r
        ELSE LET tok == Split(date_str)[1]
             IN  IF ~IsInt(tok) THEN Raised("ValueError")
                 ELSE LET year == IntValue(tok)
                      IN  Timestamp(IntToStr(IF year > 1677 THEN 1677 ELSE year)
                                    \o <<"-", "0", "1", "-", "0", "1">>)

safe_date_conversion(date_str) ==
    LET r == to_datetime(date_str)
    IN  IF r.raised = "none" THEN r
        ELSE LET tok == Split(date_str)[1]
             IN  IF ~IsInt(tok) THEN Raised("ValueError")
                 ELSE LET year == IntValue(tok)
                      IN  Timestamp(IntToStr(IF year < 1677 THEN 1677 ELSE year)
                                    \o <<"-", "0", "1", "-", "0", "1">>)

-----------------------------------------------------------------------------
(* Entity extraction. *)

\* nlp taking a missing text for the empty string.
nlp_coerce(text) ==
    IF text = NaN THEN [raised |-> "none", ents |-> <<>>]
    ELSE [raised |-> "none", ents |-> text[1]]

\* nlp(text).ents
nlp(text) ==
    IF text = NaN THEN [raised |-> "ValueError", ents |-> <<>>]
    ELSE [raised |-> "none", ents |-> text[1]]

EmptyEntities == [people |-> {}, locations |-> {}, organizations |-> {}]

\* AddEntity without the LOC label.
AddEntity_GPEOnly(entities, ent) ==
    IF ent.label = "PERSON"
    THEN [entities EXCEPT !.people = @ \cup {ent.text}]
    ELSE IF ent.label = "GPE"
    THEN [entities EXCEPT !.locations = @ \cup {ent.text}]
    ELSE IF ent.label = "ORG"
    THEN [entities EXCEPT !.organizations = @ \cup {ent.text}]
    ELSE entities

\* One pass of the loop over doc.ents.
AddEntity(entities, ent) ==
    IF ent.label = "PERSON"
    THEN [entities EXCEPT !.people = @ \cup {ent.text}]
    ELSE IF ent.label \in {"GPE", "LOC"}
    THEN [entities EXCEPT !.locations = @ \cup {ent.text}]
    ELSE IF ent.label = "ORG"
    THEN [entities EXCEPT !.organizations = @ \cup {ent.text}]
    ELSE entities

\* The loop over doc.ents, from empty sets.
RECURSIVE Bucket(_)
Bucket(ents) ==
    IF ents = <<>> THEN EmptyEntities
    ELSE AddEntity(Bucket(SubSeq(ents, 1, Len(ents) - 1)), ents[Len(ents)])

\* list(a_set): the set's elements once each, in an order the hash seed decides.
ListsOf(S) == {l \in [1..Cardinality(S) -> S] : Range(l) = S}

\* The count as the sum of the three categories' sizes.
unique_entity_count_sum(people, locations, organizations) ==
    Len(people) + Len(locations) + Len(organizations)

\* The record's unique_entity_count: the size of the union of its three
\* categories (computed by the script's other variants).
unique_entity_count(people, locations, organizations) ==
    Cardinality(Range(people \o locations \o organizations))

\* The dictionaries analyze_event_description can return on a text.
analyze_event_description(ents) ==
    LET e == Bucket(ents)
    IN  {[people |-> p, locations |-> l, organizations |-> o] :
            p \in ListsOf(e.people), l \in ListsOf(e.locations),
            o \in ListsOf(e.organizations)}

-----------------------------------------------------------------------------
(* Timeline layout. *)

base_levels == <<-5, 5, -3, 3, -1, 1>>

\* list * k
RECURSIVE Repeat(_, _)
Repeat(s, k) == IF k <= 0 THEN <<>> ELSE s \o Repeat(s, k - 1)

\* list[:n]
Take(s, n) == SubSeq(s, 1, IF n < Len(s) THEN n ELSE Len(s))

\* Levels without the extra repetition of the palette.
Levels_NoExtra(n) == Take(Repeat(base_levels, n \div Len(base_levels)), n)

Levels(n) == Take(Repeat(base_levels, n \div Len(base_levels) + 1), n)

Label(event_text) ==
    IF Len(event_text) < 30 THEN event_text
    ELSE Take(event_text, 27) \o <<".", ".", ".">>

PlotKey(row) == TsKey(row.plot_date[1])

\* The orders sort_values(by='plot_date') can leave the rows in: ascending
\* by plot_date, rows of equal plot_date in any order.
RECURSIVE AscendingOrders(_)
AscendingOrders(rows) ==
    IF rows = {} THEN {<<>>}
    ELSE LET least == {r \in rows : \A q \in rows : PlotKey(r) <= PlotKey(q)}
         IN  UNION {{<<r>> \o t : t \in AscendingOrders(rows \ {r})} : r \in least}

-----------------------------------------------------------------------------
(* The inputs: the environment and the CSV files the model runs on. *)

Spans == {"Napoleon", "Paris"}
Labels == {"PERSON", "GPE", "LOC", "ORG", "DATE"}
Ents == [text : Spans, label : Labels]

Letters == <<"a", "b", "c", "d", "e", "f", "g", "h", "i", "j">>
Title(n) == [k \in 1..n |-> Letters[((k - 1) % 10) + 1]]

DefaultDate == <<"1", "7", "7", "6", "-", "0", "7", "-", "0", "4">>
DefaultTitle == Title(5)
DefaultText == Text(<<>>)

Dates ==
    { <<"1", "2", "0", "0", "-", "0", "3", "-", "1", "5">>,
      <<"1", "5", "0", "0">>,
      <<"1", "6", "7", "6", "-", "1", "2", "-", "3", "1">>,
      <<"1", "6", "7", "7", "-", "0", "3", "-", "0", "1">>,
      <<"1", "7", "7", "6", "-", "0", "7", "-", "0", "4">>,
      <<"1", "8", "5", "0">>,
      <<"1", "8", "5", "0", "-", "1", "3", "-", "4", "5">>,
      <<"2", "5", "0", "0", "-", "0", "1", "-", "0", "1">>,
      <<"B", "C">> }

CsvRow(date, event, description) ==
    [date |-> date, event |-> event, description |-> description]

\* One row whose description has any classifier result of up to MaxEnts spans.
CsvEntities ==
    {<<CsvRow(DefaultDate, DefaultTitle, Text(e))>> : e \in SeqsUpTo(Ents, MaxEnts)}

\* Up to MaxRows rows whose descriptions are texts or missing.
CsvDescriptions ==
    LET descs == {NaN, DefaultText,
                  Text(<<[text |-> "Napoleon", label |-> "PERSON"],
                         [text |-> "Paris", label |-> "GPE"]>>)}
    IN  {[k \in 1..Len(ds) |-> CsvRow(DefaultDate, DefaultTitle, ds[k])] :
            ds \in SeqsUpTo(descs, MaxRows)}

\* Up to MaxEvents rows with any of the dates.
CsvDates ==
    {[k \in 1..Len(ds) |-> CsvRow(ds[k], DefaultTitle, DefaultText)] :
        ds \in SeqsUpTo(Dates, MaxEvents)}

\* One row with a title of 1..MaxTitleLen characters.
CsvTitles ==
    {<<CsvRow(DefaultDate, Title(n), DefaultText)>> : n \in 1..MaxTitleLen}

\* Up to MaxLevelEvents rows of distinct years, oldest or newest first.
CsvMany ==
    UNION {{[k \in 1..n |-> CsvRow(IntToStr(1800 + 10 * k), DefaultTitle, DefaultText)],
            [k \in 1..n |-> CsvRow(IntToStr(1800 + 10 * (n + 1 - k)), DefaultTitle,
                                   DefaultText)]} : n \in 0..MaxLevelEvents}

CsvFiles == CsvEntities \cup CsvDescriptions \cup CsvDates \cup CsvTitles \cup CsvMany

-----------------------------------------------------------------------------
(* The script. *)

Init ==
    /\ pc = "load_model"
    /\ is_main \in BOOLEAN
    /\ model_ok \in BOOLEAN
    /\ file_ok \in BOOLEAN
    \* The file's rows matter only to a run that reads them.
    /\ csv \in (IF is_main /\ model_ok /\ file_ok THEN CsvFiles ELSE {<<>>})
    /\ df = <<>>
    /\ df_defined = FALSE
    /\ idx = 1
    /\ levels = <<>>
    /\ i = 0
    /\ texts = <<>>
    /\ stdout = <<>>
    /\ err = NoError

\* nlp = spacy.load("en_core_web_sm")
LoadModel ==
    /\ pc = "load_model"
    /\ model_ok
    /\ pc' = "main_guard"
    /\ UNCHANGED <<is_main, model_ok, file_ok, csv, df, df_defined, idx, levels, i,
                   texts, stdout, err>>

\* except OSError: print(...); exit()
LoadModelFails ==
    /\ pc = "load_model"
    /\ ~model_ok
    /\ stdout' = Append(stdout, "Missing spaCy model. Run: python -m spacy download en_core_web_sm")
    /\ pc' = "exited"
    /\ UNCHANGED <<is_main, model_ok, file_ok, csv, df, df_defined, idx, levels, i,
                   texts, err>>

\* if __name__ == "__main__":
MainGuard ==
    /\ pc = "main_guard"
    /\ pc' = IF is_main THEN "read_csv" ELSE "timeline"
    /\ UNCHANGED <<is_main, model_ok, file_ok, csv, df, df_defined, idx, levels, i,
                   texts, stdout, err>>

\* The row read_csv makes of a CSV row, with the three new columns set to None.
NewRow(k, r) ==
    [index |-> k - 1, date |-> r.date, event |-> r.event,
     description |-> r.description, People |-> None, Locations |-> None,
     Organizations |-> None, plot_date |-> None]

\* df = pd.read_csv(...); the new columns; print("Analyzing historical events...")
ReadCsv ==
    /\ pc = "read_csv"
    /\ file_ok
    /\ df' = [k \in 1..Len(csv) |-> NewRow(k, csv[k])]
    /\ df_defined' = TRUE
    /\ stdout' = Append(stdout, "Analyzing historical events...")
    /\ idx' = 1
    /\ pc' = "enrich"
    /\ UNCHANGED <<is_main, model_ok, file_ok, csv, levels, i, texts, err>>

\* ReadCsvNotFound without the exit(): the script runs on to df["People"] = None.
ReadCsvNotFound_NoExit ==
    /\ pc = "read_csv"
    /\ ~file_ok
    /\ stdout' = Append(stdout, "Error: 'final-dataset-mannmakhecha07.csv' not found.")
    /\ pc' = "crashed"
    /\ err' = Exception("NameError", "df")
    /\ UNCHANGED <<is_main, model_ok, file_ok, csv, df, df_defined, idx, levels, i,
                   texts>>

\* except FileNotFoundError: print(...); exit()
ReadCsvNotFound ==
    /\ pc = "read_csv"
    /\ ~file_ok
    /\ stdout' = Append(stdout, "Error: 'final-dataset-mannmakhecha07.csv' not found.")
    /\ pc' = "exited"
    /\ UNCHANGED <<is_main, model_ok, file_ok, csv, df, df_defined, idx, levels, i,
                   texts, err>>

\* One pass of the loop over df.iterrows().
EnrichRow ==
    /\ pc = "enrich"
    /\ idx <= Len(df)
    /\ LET doc == nlp(df[idx].description)
       IN  IF doc.raised # "none"
           THEN /\ pc' = "crashed"
                /\ err' = Exception(doc.raised, "nlp")
                /\ UNCHANGED <<df, idx>>
           ELSE /\ \E info \in analyze_event_description(doc.ents) :
                       df' = [df EXCEPT ![idx] =
                                 [@ EXCEPT !.People = Some(info.people),
                                           !.Locations = Some(info.locations),
                                           !.Organizations = Some(info.organizations)]]
                /\ idx' = idx + 1
                /\ UNCHANGED <<pc, err>>
    /\ UNCHANGED <<is_main, model_ok, file_ok, csv, df_defined, levels, i, texts, stdout>>

\* After the loop: print("\n--- Analysis Complete ---"); print(df)
PrintAnalysis ==
    /\ pc = "enrich"
    /\ idx > Len(df)
    /\ stdout' = stdout \o <<"--- Analysis Complete ---", "df">>
    /\ pc' = "timeline"
    /\ UNCHANGED <<is_main, model_ok, file_ok, csv, df, df_defined, idx, levels, i,
                   texts, err>>

\* print("\nGenerating visual timeline...")
StartTimeline ==
    /\ pc = "timeline"
    /\ stdout' = Append(stdout, "Generating visual timeline...")
    /\ pc' = "convert"
    /\ UNCHANGED <<is_main, model_ok, file_ok, csv, df, df_defined, idx, levels, i,
                   texts, err>>

\* df['plot_date'] = df['date'].apply(safe_date_conversion)
ConvertDates ==
    /\ pc = "convert"
    /\ LET conv == [k \in 1..Len(df) |-> safe_date_conversion(df[k].date)]
           bad == {k \in 1..Len(df) : conv[k].raised # "none"}
       IN  IF ~df_defined
           THEN /\ pc' = "crashed"
                /\ err' = Exception("NameError", "df")
                /\ UNCHANGED df
           ELSE IF bad # {}
           THEN /\ pc' = "crashed"
                /\ err' = Exception("ValueError", "safe_date_conversion")
                /\ UNCHANGED df
           ELSE /\ df' = [k \in 1..Len(df) |->
                              [df[k] EXCEPT !.plot_date = Some(conv[k].value)]]
                /\ pc' = "sort"
                /\ UNCHANGED err
    /\ UNCHANGED <<is_main, model_ok, file_ok, csv, df_defined, idx, levels, i, texts,
                   stdout>>

\* df = df.sort_values(by='plot_date')
SortValues ==
    /\ pc = "sort"
    /\ df' \in AscendingOrders(Range(df))
    /\ pc' = "levels"
    /\ UNCHANGED <<is_main, model_ok, file_ok, csv, df_defined, idx, levels, i, texts,
                   stdout, err>>

\* levels = (base_levels * (len(df) // len(base_levels) + 1))[:len(df)]
MakeLevels ==
    /\ pc = "levels"
    /\ levels' = Levels(Len(df))
    /\ i' = 0
    /\ pc' = "labels"
    /\ UNCHANGED <<is_main, model_ok, file_ok, csv, df, df_defined, idx, texts, stdout,
                   err>>

\* One pass of the loop over enumerate(zip(df['plot_date'], df['event'])).
LabelEvent ==
    /\ pc = "labels"
    /\ i < Len(df)
    /\ texts' = Append(texts,
                   [x |-> df[i + 1].plot_date[1],
                    y |-> levels[i + 1],
                    s |-> Label(df[i + 1].event),
                    ha |-> IF i % 2 = 0 THEN "right" ELSE "left",
                    va |-> IF levels[i + 1] > 0 THEN "bottom" ELSE "top"])
    /\ i' = i + 1
    /\ UNCHANGED <<pc, is_main, model_ok, file_ok, csv, df, df_defined, idx, levels,
                   stdout, err>>

\* After the loop: the plot is formatted and shown.
Show ==
    /\ pc = "labels"
    /\ i = Len(df)
    /\ pc' = "done"
    /\ UNCHANGED <<is_main, model_ok, file_ok, csv, df, df_defined, idx, levels, i,
                   texts, stdout, err>>

Next ==
    \/ LoadModel
    \/ LoadModelFails
    \/ MainGuard
    \/ ReadCsv
    \/ ReadCsvNotFound
    \/ EnrichRow
    \/ PrintAnalysis
    \/ StartTimeline
    \/ ConvertDates
    \/ SortValues
    \/ MakeLevels
    \/ LabelEvent
    \/ Show

Spec == Init /\ [][Next]_vars

-----------------------------------------------------------------------------
(* The properties. *)

MissingModelMsg == "Missing spaCy model. Run: python -m spacy download en_core_web_sm"
NotFoundMsg == "Error: 'final-dataset-mannmakhecha07.csv' not found."

\* plot_date is set; the rows are in sort_values' order.
Converted == pc \in {"sort", "levels", "labels", "done"}
Sorted == pc \in {"levels", "labels", "done"}
Enriched(row) == row.People # None

\* The general parse fails on s and the token before the first '-' is an integer.
FallsBack(s) == to_datetime(s).raised # "none" /\ IsInt(Split(s)[1])
LeadingYear(s) == IntValue(Split(s)[1])

Date1200 == <<"1", "2", "0", "0", "-", "0", "3", "-", "1", "5">>
Date1850 == <<"1", "8", "5", "0">>
Ellipsis == <<".", ".", ".">>

\* C1: every date on which the general parse fails and whose leading token
\* is an integer year y is normalized to January 1st of y when y >= 1677 and
\* to January 1st of 1677 when y < 1677; "1200-03-15" gives January 1, 1677
\* and "1850" gives January 1, 1850.
C1_DateFallbackValue ==
    Converted =>
        \A k \in 1..Len(df) :
            /\ FallsBack(df[k].date) =>
                   df[k].plot_date =
                       Some(Date(IF LeadingYear(df[k].date) >= 1677
                                 THEN LeadingYear(df[k].date) ELSE 1677, 1, 1))
            /\ df[k].date = Date1200 => df[k].plot_date = Some(Date(1677, 1, 1))
            /\ df[k].date = Date1850 => df[k].plot_date = Some(Date(1850, 1, 1))

\* A converted table holding "1200-03-15" (clamped) and a fallback date whose
\* year is not below 1677.
C1_Witness ==
    /\ Converted
    /\ \E a, b \in 1..Len(df) :
           /\ df[a].date = Date1200
           /\ FallsBack(df[a].date)
           /\ df[a].plot_date = Some(Date(1677, 1, 1))
           /\ FallsBack(df[b].date)
           /\ LeadingYear(df[b].date) > 1677
           /\ df[b].plot_date = Some(Date(LeadingYear(df[b].date), 1, 1))

\* C2: the sorted table is the input stably sorted by normalized date: dates
\* ascend, and rows of equal date keep their input order.
C2_StableOrder ==
    Sorted =>
        \A a, b \in 1..Len(df) :
            a < b =>
                /\ PlotKey(df[a]) <= PlotKey(df[b])
                /\ PlotKey(df[a]) = PlotKey(df[b]) => df[a].index < df[b].index

\* C3: a title of at most 30 characters is its own label, and a longer one
\* is labelled by its first 27 characters and the ellipsis.
C3_LabelTruncation ==
    \A k \in 1..Len(texts) :
        LET title == df[k].event
        IN  /\ Len(title) <= 30 => texts[k].s = title
            /\ Len(title) > 30 => texts[k].s = SubSeq(title, 1, 27) \o Ellipsis

\* C4: the i-th event of the date-sorted order gets the offset
\* palette[i mod 6] of the palette -5, 5, -3, 3, -1, 1, and n events get
\* exactly n offsets.
C4_OffsetCycling ==
    LET palette == <<-5, 5, -3, 3, -1, 1>>
    IN  /\ pc \in {"labels", "done"} =>
               /\ Len(levels) = Len(df)
               /\ \A k \in 1..Len(df) : levels[k] = palette[((k - 1) % 6) + 1]
               /\ \A a, b \in 1..Len(df) : a < b => PlotKey(df[a]) <= PlotKey(df[b])
        /\ \A k \in 1..Len(texts) :
               /\ texts[k].y = palette[((k - 1) % 6) + 1]
               /\ texts[k].x = df[k].plot_date[1]
        /\ pc = "done" => Len(texts) = Len(df)

\* Eight events drawn: the 7th and the 8th have the 1st and the 2nd offset.
C4_Witness ==
    /\ pc = "done"
    /\ Len(df) = 8
    /\ Len(texts) = 8
    /\ texts[7].y = -5
    /\ texts[8].y = 5

\* C5: an enriched row's People are the distinct spans labelled PERSON, its
\* Locations those labelled GPE or LOC, its Organizations those labelled
\* ORG, no list holds a string twice, and other labels land nowhere.
C5_EntityBucketing ==
    \A k \in 1..Len(df) :
        Enriched(df[k]) =>
            LET ents == Range(df[k].description[1])
                spans(labels) == {e.text : e \in {x \in ents : x.label \in labels}}
                P == df[k].People[1]
                L == df[k].Locations[1]
                O == df[k].Organizations[1]
            IN  /\ Range(P) = spans({"PERSON"})
                /\ Range(L) = spans({"GPE", "LOC"})
                /\ Range(O) = spans({"ORG"})
                /\ NoDup(P) /\ NoDup(L) /\ NoDup(O)

\* A row enriched from a GPE span and a LOC span of different texts: both
\* are locations.
C5_Witness ==
    \E k \in 1..Len(df) :
        /\ Enriched(df[k])
        /\ df[k].description = Text(<<[text |-> "Paris", label |-> "GPE"],
                                      [text |-> "Napoleon", label |-> "LOC"]>>)
        /\ Len(df[k].Locations[1]) = 2
        /\ df[k].People[1] = <<>>

\* C6: a record's unique_entity_count is the size of the union of its
\* people, locations and organizations, and is at most the sum of their sizes.
C6_UniqueEntityCount ==
    \A k \in 1..Len(df) :
        Enriched(df[k]) =>
            LET P == df[k].People[1]
                L == df[k].Locations[1]
                O == df[k].Organizations[1]
                n == unique_entity_count(P, L, O)
            IN  /\ n = Cardinality(Range(P) \cup Range(L) \cup Range(O))
                /\ n <= Len(P) + Len(L) + Len(O)

\* A record with one string in two categories: counted once.
C6_Witness ==
    \E k \in 1..Len(df) :
        /\ Enriched(df[k])
        /\ df[k].People[1] = <<"Paris">>
        /\ df[k].Locations[1] = <<"Paris">>
        /\ unique_entity_count(df[k].People[1], df[k].Locations[1],
                               df[k].Organizations[1]) = 1

\* C7: no input date makes the date normalization end in an error.
C7_NoDateError ==
    ~(pc = "crashed" /\ err.at = "safe_date_conversion")

\* C8: once the missing model or the missing file is reported the process
\* has exited, the report is all it printed, and no row was analyzed, no
\* table printed and no timeline laid out; and each failure is reported.
C8_FatalStartupNoPartialOutput ==
    /\ (~model_ok /\ pc # "load_model") => MissingModelMsg \in Range(stdout)
    /\ (~file_ok /\ is_main /\ pc \notin {"load_model", "main_guard", "read_csv"})
           => (MissingModelMsg \in Range(stdout) \/ NotFoundMsg \in Range(stdout))
    /\ \A msg \in {MissingModelMsg, NotFoundMsg} :
           msg \in Range(stdout) =>
               /\ pc = "exited"
               /\ stdout = <<msg>>
               /\ \A k \in 1..Len(df) : ~Enriched(df[k])
               /\ levels = <<>>
               /\ texts = <<>>

\* The model loaded, the file was not found: reported and exited.
C8_Witness ==
    /\ pc = "exited"
    /\ model_ok
    /\ ~file_ok
    /\ stdout = <<NotFoundMsg>>

\* C9: a row whose description is missing is never enriched, the loop never
\* moves past it, and reaching it ends the run with the exception.
C9_MissingDescriptionFatal ==
    \A k \in 1..Len(df) :
        df[k].description = NaN =>
            /\ ~Enriched(df[k])
            /\ idx <= df[k].index + 1
            /\ pc \in {"enrich", "crashed"}
            /\ (pc = "crashed" => err = Exception("ValueError", "nlp"))

\* The first row was enriched, the second has no description: the run ended.
C9_Witness ==
    /\ pc = "crashed"
    /\ err = Exception("ValueError", "nlp")
    /\ idx = 2
    /\ Enriched(df[1])
    /\ df[2].description = NaN
    /\ ~Enriched(df[2])

\* C10: among dates that take the fallback, a later leading year never gets
\* an earlier normalized date; equal years, and any two years below 1677,
\* get the same date; so in the sorted table a fallback event placed before
\* one of an earlier fallback year has the same date as it.
C10_FallbackMonotone ==
    /\ Converted =>
           \A a, b \in 1..Len(df) :
               (FallsBack(df[a].date) /\ FallsBack(df[b].date)
                    /\ LeadingYear(df[a].date) <= LeadingYear(df[b].date)) =>
                   /\ PlotKey(df[a]) <= PlotKey(df[b])
                   /\ (LeadingYear(df[a].date) = LeadingYear(df[b].date)
                         \/ LeadingYear(df[b].date) < 1677)
                          => df[a].plot_date = df[b].plot_date
    /\ Sorted =>
           \A a, b \in 1..Len(df) :
               (a < b /\ FallsBack(df[a].date) /\ FallsBack(df[b].date)
                    /\ LeadingYear(df[a].date) > LeadingYear(df[b].date)) =>
                   df[a].plot_date = df[b].plot_date

\* A sorted table of two fallback events: year 1500 placed before year 1200,
\* both on January 1, 1677.
C10_Witness ==
    /\ Sorted
    /\ Len(df) = 2
    /\ FallsBack(df[1].date) /\ FallsBack(df[2].date)
    /\ LeadingYear(df[1].date) = 1500
    /\ LeadingYear(df[2].date) = 1200
    /\ df[1].plot_date = Some(Date(1677, 1, 1))
    /\ df[2].plot_date = Some(Date(1677, 1, 1))

=============================================================================
